---------------------------- MODULE Spec2Model ----------------------------
(***************************************************************************)
(* Model of gcode_outer_holes_tool.py: the "angled Swiss cheese" G-code    *)
(* filter.  Text lines are TLA+ strings, matched character by character    *)
(* the way the two regular expressions of the source match them.           *)
(*                                                                         *)
(* Text.  A string of this module holds the characters up to U+00FF; the   *)
(* decimal digits among them are 0-9.                                      *)
(*                                                                         *)
(* Numbers.  float(text) is the exact decimal the text denotes, kept as    *)
(* sign, digits and scale (so -0.0 stays distinct from 0.0), or inf or     *)
(* nan; f"{x:.1f}" rounds the double nearest to that decimal.  Coordinates *)
(* and radius are counted in units of 1/800 and must lie on that grid.     *)
(*                                                                         *)
(* Randomness.  The Mersenne Twister behind the module-level `random`,     *)
(* math.cos and math.sin are not computed: the values they return are      *)
(* tabulated, for the generator states the runs of this module draw in,    *)
(* as the pair of neighbouring multiples of 1/Scale they lie between.  A   *)
(* number made from a draw is kept as such bounds lo <= v <= hi, together  *)
(* with the generator state of the draw; what the program does exactly is  *)
(* kept exactly: the state (set by random.seed from the seed alone and     *)
(* advanced by every draw), the order of the draws, and uniform(a, a) = a. *)
(* A draw in a state that is not tabulated is any number of [0, 1).        *)
(*                                                                         *)
(* Distances.  point_line_distance_2d is computed the way lines 78-81      *)
(* compute it, on bounds: the result is bounds on the square of the        *)
(* distance, a few thousandths wide; for a cutting line whose origin is    *)
(* the point itself it is the 0.0 of the code.  The test dist <= radius    *)
(* is decided where the radius lies outside the bounds.  Where it lies     *)
(* inside, the distance is either side of it: the first call for given     *)
(* operands takes a value within the bounds on either side, kept in        *)
(* `dists` for every later call with these operands.                       *)
(***************************************************************************)
EXTENDS Integers, Sequences, FiniteSets, TLC

VARIABLES answers, line_count, radius, seed, gcode_lines, rng, pc,
          bounds, lines_to_cut, modified, removed, idx, prev, dists

vars == <<answers, line_count, radius, seed, gcode_lines, rng, pc,
          bounds, lines_to_cut, modified, removed, idx, prev, dists>>

(* Longest input file, in lines. *)
MaxLines == 2

-----------------------------------------------------------------------------
(* Characters and number texts *)

Char(s, i) == IF 1 <= i /\ i <= Len(s) THEN SubSeq(s, i, i) ELSE ""

(* the slice s[a-1:b] *)
Slice(s, a, b) == IF a > b THEN "" ELSE SubSeq(s, a, b)

(* the decimal digits of the alphabet: what \d, int() and float() take as *)
(* a digit among the characters a string of this module can hold          *)
Digits == {"0", "1", "2", "3", "4", "5", "6", "7", "8", "9"}

IsDigit(c) == c \in Digits

(* the character class [\d\.\-] of both regular expressions *)
IsNumChar(c) == c \in Digits \cup {".", "-"}

DigitVal(c) ==
  CASE c = "0" -> 0 [] c = "1" -> 1 [] c = "2" -> 2 [] c = "3" -> 3
    [] c = "4" -> 4 [] c = "5" -> 5 [] c = "6" -> 6 [] c = "7" -> 7
    [] c = "8" -> 8 [] c = "9" -> 9

DigitChar(d) == SubSeq("0123456789", d + 1, d + 1)

AllDigits(s) == \A i \in 1..Len(s) : IsDigit(Char(s, i))

RECURSIVE StrToNat(_)
StrToNat(s) ==
  IF Len(s) = 0 THEN 0
  ELSE 10 * StrToNat(Slice(s, 1, Len(s) - 1)) + DigitVal(Char(s, Len(s)))

RECURSIVE NatToStr(_)
NatToStr(n) ==
  IF n < 10 THEN DigitChar(n) ELSE NatToStr(n \div 10) \o DigitChar(n % 10)

(* str(n) of a Python int, as the f-string of the summary line prints it *)
IntToStr(n) == IF n < 0 THEN "-" \o NatToStr(-n) ELSE NatToStr(n)

StartsWith(s, p) == Len(s) >= Len(p) /\ SubSeq(s, 1, Len(p)) = p

RECURSIVE Pow10(_)
Pow10(n) == IF n <= 0 THEN 1 ELSE 10 * Pow10(n - 1)

(* n / d for a division that leaves no remainder; no value otherwise *)
ExactDiv(n, d) == CHOOSE q \in {n \div d} : q * d = n

(* the white space int() and float() strip from both ends: space, U+0009 *)
(* to U+000D, U+0085 and U+00A0                                          *)
WhiteSpace == {" ", "\t", "\n", "\r", "\f", "", "", " "}

RECURSIVE LStrip(_)
LStrip(t) == IF Char(t, 1) \in WhiteSpace THEN LStrip(Slice(t, 2, Len(t))) ELSE t

RECURSIVE RStrip(_)
RStrip(t) ==
  IF Char(t, Len(t)) \in WhiteSpace THEN RStrip(Slice(t, 1, Len(t) - 1)) ELSE t

Strip(t) == RStrip(LStrip(t))

(* an underscore is allowed between two digits only *)
UnderscoresOk(t) ==
  \A i \in 1..Len(t) :
     Char(t, i) = "_" => IsDigit(Char(t, i - 1)) /\ IsDigit(Char(t, i + 1))

RECURSIVE RemoveUnderscores(_)
RemoveUnderscores(t) ==
  IF Len(t) = 0 THEN ""
  ELSE (IF Char(t, 1) = "_" THEN "" ELSE Char(t, 1))
          \o RemoveUnderscores(Slice(t, 2, Len(t)))

(* the text int() and float() parse: stripped, underscores taken out *)
Cleaned(t) == RemoveUnderscores(Strip(t))

HasSign(t) == Char(t, 1) \in {"-", "+"}

Unsigned(t) == IF HasSign(t) THEN Slice(t, 2, Len(t)) ELSE t

(* int(text) succeeds: an optional sign and one or more digits *)
IsIntText(t) ==
  /\ UnderscoresOk(Strip(t))
  /\ Len(Unsigned(Cleaned(t))) > 0
  /\ AllDigits(Unsigned(Cleaned(t)))

IntOf(t) ==
  IF Char(Cleaned(t), 1) = "-" THEN 0 - StrToNat(Unsigned(Cleaned(t)))
  ELSE StrToNat(Unsigned(Cleaned(t)))

LowerChar(c) ==
  CASE c = "I" -> "i" [] c = "N" -> "n" [] c = "F" -> "f" [] c = "T" -> "t"
    [] c = "Y" -> "y" [] c = "A" -> "a" [] c = "E" -> "e" [] OTHER -> c

RECURSIVE Lower(_)
Lower(t) ==
  IF Len(t) = 0 THEN "" ELSE LowerChar(Char(t, 1)) \o Lower(Slice(t, 2, Len(t)))

(* the unsigned body of a float text, lower case *)
FloatBody(t) == Lower(Unsigned(Cleaned(t)))

(* position of the exponent marker, Len + 1 when there is none *)
ExpPos(b) ==
  IF \E i \in 1..Len(b) : Char(b, i) = "e"
  THEN CHOOSE i \in 1..Len(b) : Char(b, i) = "e" /\ \A j \in 1..(i - 1) : Char(b, j) # "e"
  ELSE Len(b) + 1

Mantissa(b) == Slice(b, 1, ExpPos(b) - 1)

Exponent(b) == Slice(b, ExpPos(b) + 1, Len(b))

DotPos(m) == {i \in 1..Len(m) : Char(m, i) = "."}

IsMantissa(m) ==
  /\ \A i \in 1..Len(m) : IsDigit(Char(m, i)) \/ Char(m, i) = "."
  /\ Cardinality(DotPos(m)) <= 1
  /\ \E i \in 1..Len(m) : IsDigit(Char(m, i))

(* float(text) succeeds: inf, infinity or nan, or digits with at most one *)
(* point and an optional exponent, after an optional sign                 *)
IsFloatText(t) ==
  /\ UnderscoresOk(Strip(t))
  /\ LET b == FloatBody(t)
     IN \/ b \in {"inf", "infinity", "nan"}
        \/ /\ IsMantissa(Mantissa(b))
           /\ ExpPos(b) <= Len(b) =>
                 /\ Len(Unsigned(Exponent(b))) > 0
                 /\ AllDigits(Unsigned(Exponent(b)))

RECURSIVE StripZeros(_)
StripZeros(f) ==
  IF Char(f, Len(f)) = "0" THEN StripZeros(Slice(f, 1, Len(f) - 1)) ELSE f

(* float(text): "inf" or "nan", or the decimal mag / 10^scale with its sign *)
FloatOf(t) ==
  LET neg == Char(Cleaned(t), 1) = "-"
      b == FloatBody(t)
      m == Mantissa(b)
      d == IF DotPos(m) = {} THEN Len(m) + 1 ELSE CHOOSE i \in DotPos(m) : TRUE
      ip == Slice(m, 1, d - 1)
      fp == StripZeros(Slice(m, d + 1, Len(m)))
      x == Exponent(b)
      ev == IF Char(x, 1) = "-" THEN 0 - StrToNat(Unsigned(x)) ELSE StrToNat(Unsigned(x))
      sc == Len(fp) - ev
      mg == StrToNat(ip \o fp)
  IN IF b \in {"inf", "infinity"} THEN [k |-> "inf", neg |-> neg, mag |-> 0, scale |-> 0]
     ELSE IF b = "nan" THEN [k |-> "nan", neg |-> FALSE, mag |-> 0, scale |-> 0]
     ELSE IF sc < 0 THEN [k |-> "fin", neg |-> neg, mag |-> mg * Pow10(0 - sc), scale |-> 0]
     ELSE [k |-> "fin", neg |-> neg, mag |-> mg, scale |-> sc]

(* a finite float in units of 1/800, the grid the geometry is computed on *)
(* (every decimal with two fractional digits lies on it)                  *)
Val(f) ==
  IF f.neg THEN 0 - ExactDiv(f.mag * 800, Pow10(f.scale))
  ELSE ExactDiv(f.mag * 800, Pow10(f.scale))

RECURSIVE Pow5(_)
Pow5(n) == IF n <= 0 THEN 1 ELSE 5 * Pow5(n - 1)

(* 2^k modulo m *)
RECURSIVE Pow2Mod(_, _)
Pow2Mod(k, m) ==
  IF k = 0 THEN 1 % m
  ELSE LET h == Pow2Mod(k \div 2, m)
       IN (((h * h) % m) * (IF k % 2 = 1 THEN 2 ELSE 1)) % m

(* the binary exponent of mag / p: the e with 2^e <= mag / p < 2^(e+1) *)
RECURSIVE Log2Up(_, _, _)
Log2Up(mag, p, e) == IF 2 * p <= mag THEN Log2Up(mag, 2 * p, e + 1) ELSE e

RECURSIVE Log2Down(_, _, _)
Log2Down(mag, p, e) == IF mag < p THEN Log2Down(2 * mag, p, e - 1) ELSE e

BinExp(mag, p) == IF mag >= p THEN Log2Up(mag, p, 0) ELSE Log2Down(mag, p, 0)

(* how the double nearest to mag / 10^s lies to that decimal: "exact", *)
(* "below" or "above"; the remainder of mag * 2^(52 - e - s) by 5^s    *)
(* says which way the 53-bit rounding went                             *)
DoubleSide(mag, s) ==
  LET m5 == Pow5(s)
      e == BinExp(mag, Pow10(s))
      rem == ((mag % m5) * Pow2Mod(52 - e - s, m5)) % m5
  IN IF rem = 0 THEN "exact" ELSE IF 2 * rem < m5 THEN "below" ELSE "above"

(* f"{x:.1f}": the double rounded to one decimal, a tie to even; a decimal *)
(* that looks like a tie (0.35) is one only if the double is exact (0.25)  *)
Format1(f) ==
  LET p == Pow10(f.scale)
      t == (f.mag * 10) \div p
      r == (f.mag * 10) % p
      side == IF 2 * r = p /\ r # 0 THEN DoubleSide(f.mag, f.scale) ELSE "exact"
      up == \/ 2 * r > p
            \/ 2 * r = p /\ r # 0 /\ (side = "above" \/ (side = "exact" /\ t % 2 = 1))
      T == IF up THEN t + 1 ELSE t
  IN IF f.k = "nan" THEN "nan"
     ELSE (IF f.neg THEN "-" ELSE "")
             \o (IF f.k = "inf" THEN "inf" ELSE NatToStr(T \div 10) \o "." \o DigitChar(T % 10))

-----------------------------------------------------------------------------
(* parse_move and the extrusion pattern *)

(* "." of a regular expression matches any character but a newline *)
NoNewline(s, a, b) == \A i \in a..b : Char(s, i) # "\n"

(* end of the longest run of [\d\.\-] starting at i; i - 1 when there is none *)
RECURSIVE NumRunEnd(_, _)
NumRunEnd(s, i) == IF IsNumChar(Char(s, i)) THEN NumRunEnd(s, i + 1) ELSE i - 1

SetMax(S) == CHOOSE m \in S : \A n \in S : n <= m

(* X([\d\.\-]+) Y([\d\.\-]+) matches with its X at position p, after "G1 .*" *)
XMatchAt(s, p) ==
  LET e1 == NumRunEnd(s, p + 1)
  IN /\ NoNewline(s, 4, p - 1)
     /\ Char(s, p) = "X"
     /\ e1 >= p + 1
     /\ Char(s, e1 + 1) = " "
     /\ Char(s, e1 + 2) = "Y"
     /\ NumRunEnd(s, e1 + 3) >= e1 + 3

XPositions(s) ==
  IF StartsWith(s, "G1 ") THEN {p \in 4..Len(s) : XMatchAt(s, p)} ELSE {}

(* positions where the Z of the optional group " .*Z([\d\.\-]+)" can stand, *)
(* the group starting right after the Y number that ends at e2              *)
ZPositions(s, e2) ==
  IF Char(s, e2 + 1) = " "
  THEN {q \in (e2 + 2)..Len(s) :
          /\ NoNewline(s, e2 + 2, q - 1)
          /\ Char(s, q) = "Z"
          /\ IsNumChar(Char(s, q + 1))}
  ELSE {}

(* the three groups of the match; the greedy ".*" takes the last X and the *)
(* last Z that let the pattern match; group 3 is "" when Z is absent       *)
MoveGroups(s) ==
  LET p == SetMax(XPositions(s))
      e1 == NumRunEnd(s, p + 1)
      e2 == NumRunEnd(s, e1 + 3)
      zs == ZPositions(s, e2)
  IN [g1 |-> SubSeq(s, p + 1, e1),
      g2 |-> SubSeq(s, e1 + 3, e2),
      g3 |-> IF zs = {} THEN ""
             ELSE SubSeq(s, SetMax(zs) + 1, NumRunEnd(s, SetMax(zs) + 1))]

NoMove == [tag |-> "none"]

ValueError == [tag |-> "raise"]

(* parse_move: NoMove for None, ValueError when a float() raises, else the *)
(* coordinates (z is not used by any caller and is not kept)               *)
parse_move(line) ==
  IF XPositions(line) = {} THEN NoMove
  ELSE LET g == MoveGroups(line)
       IN IF /\ IsFloatText(g.g1)
             /\ IsFloatText(g.g2)
             /\ (g.g3 = "" \/ IsFloatText(g.g3))
          THEN [tag |-> "move", x |-> FloatOf(g.g1), y |-> FloatOf(g.g2)]
          ELSE ValueError

(* extrusion_move_re = ^G1 .*E[\d\.\-]+.* *)
extrusion_move_re(line) ==
  /\ StartsWith(line, "G1 ")
  /\ \E p \in 4..Len(line) :
       /\ NoNewline(line, 4, p - 1)
       /\ Char(line, p) = "E"
       /\ IsNumChar(Char(line, p + 1))

-----------------------------------------------------------------------------
(* Floats that may be infinite or NaN: bounds and cutting-line origins *)

Fin(v) == [k |-> "fin", v |-> v]

PosInf == [k |-> "inf", v |-> 0]

NegInf == [k |-> "-inf", v |-> 0]

NaN == [k |-> "nan", v |-> 0]

(* min(a, x) and max(a, x) for a running bound a and a finite x, in units *)
FMin(a, x) == IF a.k = "inf" \/ (a.k = "fin" /\ x < a.v) THEN Fin(x) ELSE a

FMax(a, x) == IF a.k = "-inf" \/ (a.k = "fin" /\ x > a.v) THEN Fin(x) ELSE a

EmptyBounds == [min_x |-> PosInf, max_x |-> NegInf, min_y |-> PosInf, max_y |-> NegInf]

(* calculate_bounds over lines[1..n]; "raise" as soon as a parse_move raises *)
RECURSIVE BoundsUpTo(_, _)
BoundsUpTo(lines, n) ==
  IF n = 0 THEN EmptyBounds
  ELSE LET b == BoundsUpTo(lines, n - 1)
           c == parse_move(lines[n])
       IN IF b = ValueError \/ c = ValueError THEN ValueError
          ELSE IF c = NoMove THEN b
          ELSE [min_x |-> FMin(b.min_x, Val(c.x)), max_x |-> FMax(b.max_x, Val(c.x)),
                min_y |-> FMin(b.min_y, Val(c.y)), max_y |-> FMax(b.max_y, Val(c.y))]

calculate_bounds(lines) == BoundsUpTo(lines, Len(lines))

-----------------------------------------------------------------------------
(* The shared generator of the `random` module *)

(* The generator is in the state "pos draws after origin", where the origin *)
(* is a random.seed(n), named by n >= 0, or the state the interpreter gave  *)
(* the generator when `random` was imported.                                *)
StartupOrigin == -1

(* random.seed(seed): the state depends on the seed alone (and on its *)
(* absolute value only, as in CPython)                                *)
random_seed(sd) == [origin |-> IF sd < 0 THEN 0 - sd ELSE sd, pos |-> 0]

(* the state after one more random.random() *)
random_next(s) == [s EXCEPT !.pos = @ + 1]

(* the unit the tabulated values are counted in: 1/Scale *)
Scale == 10000

(* floor(random.random() * Scale) for the first twelve draws after *)
(* random.seed(42) and after random.seed(7), as CPython makes them  *)
MersenneTwister ==
  42 :> << 6394, 250, 2750, 2232, 7364, 6766,
          8921, 869, 4219, 297, 2186, 5053 >>
  @@ 7 :> << 3238, 1508, 6509, 724, 5358, 3656,
          579, 5074, 374, 4336, 698, 907 >>

(* floor(math.cos(2 * math.pi * u) * Scale) for the same draws u *)
CosOfAngle ==
  42 :> << -6402, 9876, -1567, 1675, -850, -4445,
          7791, 8544, -8821, 9825, 1957, -9995 >>
  @@ 7 :> << -4475, 5834, -5831, 8982, -9747, -6646,
          9343, -9990, 9723, -9144, 9052, 8419 >>

(* floor(math.sin(2 * math.pi * u) * Scale) for the same draws u *)
SinOfAngle ==
  42 :> << -7683, 1565, 9876, 9858, -9964, -8959,
          -6269, 5194, 4711, 1861, 9806, -337 >>
  @@ 7 :> << 8943, 8121, -8125, 4395, -2236, 7472,
          3564, -468, 2334, 4049, 4249, 5396 >>

(* the draw made in state s is tabulated *)
Tabulated(s) == s.origin \in DOMAIN MersenneTwister /\ s.pos < Len(MersenneTwister[s.origin])

(* random.random() in state s, in units of 1/Scale: between two     *)
(* neighbouring multiples where tabulated, else anywhere in [0, 1)  *)
random_random(s) ==
  IF Tabulated(s)
  THEN [lo |-> MersenneTwister[s.origin][s.pos + 1], hi |-> MersenneTwister[s.origin][s.pos + 1] + 1]
  ELSE [lo |-> 0, hi |-> Scale]

(* floor(n / d) and ceil(n / d) for d > 0 *)
Floor(n, d) == n \div d

Ceil(n, d) == 0 - ((0 - n) \div d)

(* random.uniform(a, b) = a + (b - a) * random() for the draw made in state *)
(* s, in units of 1/800 like a and b: bounds on the result, and the state.  *)
(* For a = b the result is a, since (a - a) * random() is 0.0;              *)
(* inf + (-inf - inf) * random() is NaN.                                    *)
uniform(a, b, s) ==
  IF a.k = "fin" /\ b.k = "fin"
  THEN IF a.v = b.v THEN Fin(a.v)
       ELSE [k |-> "drawn", at |-> s,
             lo |-> a.v + Floor((b.v - a.v) * random_random(s).lo, Scale),
             hi |-> a.v + Ceil((b.v - a.v) * random_random(s).hi, Scale)]
  ELSE NaN

(* (math.cos(angle), math.sin(angle)) of lines 70-72 for the angle      *)
(* random.uniform(0, 2 * math.pi) drawn in state s, in units of 1/Scale *)
direction(s) ==
  [k |-> "angle", at |-> s,
   dx |-> IF Tabulated(s)
          THEN [lo |-> CosOfAngle[s.origin][s.pos + 1], hi |-> CosOfAngle[s.origin][s.pos + 1] + 1]
          ELSE [lo |-> 0 - Scale, hi |-> Scale],
   dy |-> IF Tabulated(s)
          THEN [lo |-> SinOfAngle[s.origin][s.pos + 1], hi |-> SinOfAngle[s.origin][s.pos + 1] + 1]
          ELSE [lo |-> 0 - Scale, hi |-> Scale]]

(* generate_random_vectors without line 66: the draws continue from the *)
(* state the shared generator is in                                     *)
seeded_state_no_reseed(sd, s) == s

(* random.seed(seed) of line 66: the state the draws start from, whatever *)
(* state s the shared generator was in                                    *)
seeded_state(sd, s) == random_seed(sd)

(* the cutting line of one iteration of the loop of lines 68-73, begun in *)
(* generator state s: the draws are made for x, then y, then the angle    *)
draw_vector(b, s) ==
  [x |-> uniform(b.min_x, b.max_x, s),
   y |-> uniform(b.min_y, b.max_y, random_next(s)),
   d |-> direction(random_next(random_next(s)))]

-----------------------------------------------------------------------------
(* point_line_distance_2d and the test dist <= radius *)

(* Arithmetic on bounds [lo, hi]: the bounds of the result for operands *)
(* anywhere within theirs                                               *)
Exactly(v) == [lo |-> v, hi |-> v]

Min2(a, b) == IF a <= b THEN a ELSE b

Max2(a, b) == IF a >= b THEN a ELSE b

IAdd(a, b) == [lo |-> a.lo + b.lo, hi |-> a.hi + b.hi]

ISub(a, b) == [lo |-> a.lo - b.hi, hi |-> a.hi - b.lo]

IMul(a, b) ==
  [lo |-> Min2(Min2(a.lo * b.lo, a.lo * b.hi), Min2(a.hi * b.lo, a.hi * b.hi)),
   hi |-> Max2(Max2(a.lo * b.lo, a.lo * b.hi), Max2(a.hi * b.lo, a.hi * b.hi))]

ISq(a) ==
  [lo |-> IF a.lo >= 0 THEN a.lo * a.lo ELSE IF a.hi <= 0 THEN a.hi * a.hi ELSE 0,
   hi |-> Max2(a.lo * a.lo, a.hi * a.hi)]

(* a / b for b > 0 *)
IQuot(a, b) ==
  [lo |-> Min2(Floor(a.lo, b.lo), Floor(a.lo, b.hi)),
   hi |-> Max2(Ceil(a.hi, b.lo), Ceil(a.hi, b.hi))]

(* from units of 1/(u * Scale) to units of 1/u *)
IScaleDown(a) == [lo |-> Floor(a.lo, Scale), hi |-> Ceil(a.hi, Scale)]

(* (px - nx)^2 + (py - ny)^2 of line 81: the square of the distance of *)
(* (px, py) from (nx, ny), in units of 1/800^2                         *)
squared_distance(px, py, nx, ny) ==
  IAdd(ISq(ISub(Exactly(px), nx)), ISq(ISub(Exactly(py), ny)))

(* dx**2 + dy**2 of line 78, in units of 1/Scale *)
squared_length(dx, dy) == IScaleDown(IAdd(ISq(dx), ISq(dy)))

(* t of line 78, in units of 1/800 *)
projection(px, py, x0, y0, dx, dy) ==
  IQuot(IAdd(IMul(ISub(Exactly(px), x0), dx), IMul(ISub(Exactly(py), y0), dy)),
        squared_length(dx, dy))

(* x0 + t * dx of lines 79-80, in units of 1/800 *)
nearest(x0, t, dx) == IAdd(x0, IScaleDown(IMul(t, dx)))

(* point_line_distance_2d without the projection: the distance to the *)
(* origin of the cutting line instead of to the line                  *)
point_line_distance_2d_to_origin(px, py, x0, y0, dx, dy) ==
  squared_distance(px, py, x0, y0)

(* Bounds on the square of the distance that lines 78-81 compute for the *)
(* point (px, py), the origin (x0, y0) and the direction (dx, dy), given *)
(* by their bounds.  For a direction that is not tabulated the distance  *)
(* is anything up to the distance from the origin.                       *)
point_line_distance_2d(px, py, x0, y0, dx, dy) ==
  IF squared_length(dx, dy).lo <= 0
  THEN [lo |-> 0, hi |-> squared_distance(px, py, x0, y0).hi]
  ELSE squared_distance(px, py,
                        nearest(x0, projection(px, py, x0, y0, dx, dy), dx),
                        nearest(y0, projection(px, py, x0, y0, dx, dy), dy))

(* a float as the geometry uses it: finite in units of 1/800, or inf, -inf, nan *)
Ext(f) ==
  IF f.k = "nan" THEN NaN
  ELSE IF f.k = "inf" THEN (IF f.neg THEN NegInf ELSE PosInf)
  ELSE Fin(Val(f))

(* q against v^2 for v >= 0: "lt", "eq" or "gt"; a q that fits below *)
(* 2^31 is less than the square of any v >= 46341                    *)
sq_cmp(q, v) ==
  IF v >= 46341 THEN "lt"
  ELSE IF q < v * v THEN "lt"
  ELSE IF q = v * v THEN "eq"
  ELSE "gt"

(* the cutting line v has (px, py) for its origin *)
Through(px, py, v) == v.x = Fin(px) /\ v.y = Fin(py)

(* the bounds of a coordinate of a cutting line *)
Bounds(c) == IF c.k = "fin" THEN Exactly(c.v) ELSE [lo |-> c.lo, hi |-> c.hi]

(* The square of the double `dist` of line 96, in units of 1/800^2: the   *)
(* bounds of point_line_distance_2d, one unit wider for the rounding of   *)
(* the doubles.  For origin = point the code has                          *)
(* t = (0 * dx + 0 * dy) / (dx^2 + dy^2) = 0, nearest = origin and        *)
(* distance = 0.0 for every direction.                                    *)
computed_distance(px, py, v) ==
  IF Through(px, py, v) THEN Exactly(0)
  ELSE [lo |-> Max2(0, point_line_distance_2d(px, py, Bounds(v.x), Bounds(v.y),
                                             v.d.dx, v.d.dy).lo - 1),
        hi |-> point_line_distance_2d(px, py, Bounds(v.x), Bounds(v.y),
                                      v.d.dx, v.d.dy).hi + 1]

(* the operands of one call of line 96 *)
Operands(px, py, v) == [px |-> px, py |-> py, v |-> v]

(* the comparison of line 97 inverted: dist >= radius *)
dist_ge(q, r) ==
  \/ r.k = "-inf"
  \/ r.k = "fin" /\ (r.v < 0 \/ sq_cmp(q, r.v) # "lt")

(* dist <= radius of line 97 for a dist whose square is q, in units of *)
(* 1/800^2; nothing is <= nan and no distance is <= a negative radius  *)
dist_le(q, r) ==
  \/ r.k = "inf"
  \/ r.k = "fin" /\ r.v >= 0 /\ sq_cmp(q, r.v) # "gt"

(* The test of lines 96-97 for one cutting line; a nan distance compares *)
(* false.  dist holds the square of the distance for the operands of     *)
(* every call whose cutting line does not pass through the point.        *)
within_radius(x, y, v, r, dist) ==
  /\ v.x.k # "nan"
  /\ v.y.k # "nan"
  /\ dist_le(IF Through(x, y, v) THEN 0 ELSE dist[Operands(x, y, v)], Ext(r))

(* the for ... break loop of lines 95-100: the index of the first cutting *)
(* line within radius, 0 when the loop runs into its else                 *)
first_hit(x, y, vs, r, dist) ==
  LET hits == {j \in 1..Len(vs) : within_radius(x, y, vs[j], r, dist)}
  IN IF hits = {} THEN 0 ELSE CHOOSE j \in hits : \A h \in hits : j <= h

Marker == "; Removed by angled Swiss cheese hole"

removal_comment(x, y) ==
  Marker \o " at X" \o Format1(x) \o " Y" \o Format1(y) \o "\n"

summary_line(n) ==
  "; Total moves removed by angled Swiss cheese holes: " \o IntToStr(n) \o "\n"

(* the condition of line 93 without the extrusion pattern *)
qualifies_any_move(line) == parse_move(line).tag = "move"

(* the condition of line 93 *)
qualifies(line) == parse_move(line).tag = "move" /\ extrusion_move_re(line)

(* the operands of the calls of line 96 for the point `coords` that *)
(* return a number other than the 0.0 of origin = point             *)
UnknownAt(coords, vs) ==
  {Operands(Val(coords.x), Val(coords.y), vs[j]) :
     j \in {i \in 1..Len(vs) :
              /\ vs[i].x.k # "nan"
              /\ vs[i].y.k # "nan"
              /\ ~Through(Val(coords.x), Val(coords.y), vs[i])}}

(* these operands for a line: none for a line that does not qualify *)
UnknownOf(line, vs) ==
  IF qualifies(line) THEN UnknownAt(parse_move(line), vs) ELSE {}

(* the operands of the calls of line 96 the loop of lines 95-100 makes *)
(* for the point `coords`, the last of them those of cutting line `hit` *)
CallsUpTo(coords, vs, hit) ==
  {Operands(Val(coords.x), Val(coords.y), vs[j]) :
     j \in 1..(IF hit = 0 THEN Len(vs) ELSE hit)}

CallsAt(coords, vs, r, dist) ==
  CallsUpTo(coords, vs, first_hit(Val(coords.x), Val(coords.y), vs, r, dist))

(* The operands of the calls of line 96 the loop of lines 95-100 makes *)
(* for a line: those of the cutting lines up to the first within       *)
(* radius, of all of them when none is.                                *)
CallsOf(line, vs, r, dist) ==
  IF qualifies(line) THEN CallsAt(parse_move(line), vs, r, dist) ELSE {}

(* a loop that runs count + 1 times *)
range_continues_inclusive(n, count) == n <= count

(* range(count) has a further element after n iterations *)
range_continues(n, count) == n < count

(* the loop of lines 95-100 without the break of line 100: one comment per *)
(* cutting line within radius, and the else of line 101 runs as well       *)
loop_body_no_break(line, vs, r, dist) ==
  LET coords == parse_move(line)
      hits == IF qualifies(line)
              THEN {j \in 1..Len(vs) :
                      within_radius(Val(coords.x), Val(coords.y), vs[j], r, dist)}
              ELSE {}
  IN [out |-> [k \in 1..Cardinality(hits) |-> removal_comment(coords.x, coords.y)] \o <<line>>,
      removed |-> Cardinality(hits)]

(* line 99 moved out of the test of line 97: every qualifying line counts *)
loop_body_count_all(line, vs, r, dist) ==
  LET coords == parse_move(line)
  IN IF qualifies(line) /\ first_hit(Val(coords.x), Val(coords.y), vs, r, dist) # 0
     THEN [out |-> <<removal_comment(coords.x, coords.y)>>, removed |-> 1]
     ELSE [out |-> <<line>>, removed |-> IF qualifies(line) THEN 1 ELSE 0]

(* lines 95-102 for a line that qualifies, `coords` its parse_move: the  *)
(* comment and a count of 1 when a cutting line is within radius, else  *)
(* the line itself                                                      *)
replace_or_keep(line, coords, vs, r, dist) ==
  IF first_hit(Val(coords.x), Val(coords.y), vs, r, dist) # 0
  THEN [out |-> <<removal_comment(coords.x, coords.y)>>, removed |-> 1]
  ELSE [out |-> <<line>>, removed |-> 0]

(* what one iteration of the loop of lines 91-104 appends to `modified` *)
(* for a line, and what it adds to `removed`                            *)
loop_body(line, vs, r, dist) ==
  IF qualifies(line)
  THEN replace_or_keep(line, parse_move(line), vs, r, dist)
  ELSE [out |-> <<line>>, removed |-> 0]

(* modified.insert(0, ...) in place of modified.append(...) *)
append_all_front(mod, outs) == outs \o mod

(* modified.append(...) for each element of outs *)
append_all(mod, outs) == mod \o outs

-----------------------------------------------------------------------------
(* get_int_input and get_float_input *)

(* get_int_input with a range check that the source does not have *)
get_int_input_range_checked(user_input, default) ==
  IF user_input = "" THEN default
  ELSE IF IsIntText(user_input) /\ IntOf(user_input) >= 0 THEN IntOf(user_input)
  ELSE default

get_int_input(user_input, default) ==
  IF user_input = "" THEN default
  ELSE IF IsIntText(user_input) THEN IntOf(user_input)
  ELSE default

get_float_input(user_input, default) ==
  IF user_input = "" THEN default
  ELSE IF IsFloatText(user_input) THEN FloatOf(user_input)
  ELSE default

-----------------------------------------------------------------------------
(* The inputs: what the user types at the three prompts, and the file *)

DefaultLineCount == 20

(* 1.0 *)
DefaultRadius == [k |-> "fin", neg |-> FALSE, mag |-> 1, scale |-> 0]

DefaultSeed == 42

CountTexts == {"0", "1", "2", "-1"}

RadiusTexts == {"", "-1", "0", "2.5"}

SeedTexts == {"", "7"}

Corpus ==
  << "G1 X1.0 Y1.0 E0.05\n",
     "G1 F1500 X5.25 Y9.0 Z0.2 E1.2\n",
     "G1 X9.0 Y2.0\n",
     "G1 E0.5 F300\n",
     "; Removed by angled Swiss cheese hole at X3.0 Y4.0\n",
     "G1 X1.2.3 Y4.0 E0.1\n" >>

(* the lines of Corpus at the positions of the set S, in their order *)
RECURSIVE Selection(_, _)
Selection(S, n) ==
  IF n = 0 THEN <<>>
  ELSE IF n \in S THEN Append(Selection(S, n - 1), Corpus[n])
  ELSE Selection(S, n - 1)

(* the files: up to MaxLines lines of Corpus *)
Files ==
  {Selection(S, Len(Corpus)) : S \in {T \in SUBSET (1..Len(Corpus)) : Cardinality(T) <= MaxLines}}

(* the value of a local that is not assigned yet *)
Unset == [k |-> "fin", neg |-> FALSE, mag |-> 0, scale |-> 0]

NoAnswers == [count |-> "", radius |-> "", seed |-> ""]

(* no distance computed yet *)
NoDists == [o \in {} |-> 0]

(* the squares of the radii that are entered and are not negative, in *)
(* units of 1/800^2                                                   *)
Thresholds ==
  {Ext(f).v * Ext(f).v :
     f \in {g \in {get_float_input(t, DefaultRadius) : t \in RadiusTexts} :
              Ext(g).k = "fin" /\ Ext(g).v >= 0}}

(* The values a squared distance within the bounds q is taken from: the   *)
(* lower bound and, for every threshold within the bounds, the value next *)
(* above it, so that for every way the distance can compare with the      *)
(* radii entered there is a value that compares so.                       *)
Candidates(q) == {q.lo} \cup {t + 1 : t \in {u \in Thresholds : q.lo <= u /\ u < q.hi}}

(* the squared distances the calls with the operands ops can return *)
Distances(ops) ==
  {f \in [ops -> UNION {Candidates(computed_distance(o.px, o.py, o.v)) : o \in ops}] :
     \A o \in ops : f[o] \in Candidates(computed_distance(o.px, o.py, o.v))}

(* what is typed at a prompt when only the prompts are looked at *)
PromptTexts == {"", "7", "-1", "2.5", " 3 ", "abc", "1e1", "inf"}

(* a second run of the program repeats the first run's file and its answers *)
(* for the line count and the seed; the radius is entered anew              *)
FirstRun == prev = <<>>

RadiusChoices == RadiusTexts

CountChoices == IF FirstRun THEN CountTexts ELSE {prev[1].answers.count}

SeedChoices == IF FirstRun THEN SeedTexts ELSE {prev[1].answers.seed}

FileChoices == IF FirstRun THEN Files ELSE {prev[1].lines}

-----------------------------------------------------------------------------
(* The program *)

Init ==
  /\ answers = NoAnswers
  /\ line_count = 0
  /\ radius = Unset
  /\ seed = 0
  /\ gcode_lines = <<>>
  /\ rng = [origin |-> StartupOrigin, pos |-> 0]
  /\ dists = NoDists
  /\ pc = "count"
  /\ bounds = EmptyBounds
  /\ lines_to_cut = <<>>
  /\ modified = <<>>
  /\ removed = 0
  /\ idx = 1
  /\ prev = <<>>

(* main, line 120, for an entry out of texts *)
AskLineCount(texts) ==
  /\ pc = "count"
  /\ \E t \in texts :
       /\ answers' = [answers EXCEPT !.count = t]
       /\ line_count' = get_int_input(t, DefaultLineCount)
  /\ pc' = "radius"
  /\ UNCHANGED <<radius, seed, gcode_lines, rng, bounds, lines_to_cut,
                 modified, removed, idx, prev, dists>>

(* main, line 121, for an entry out of texts *)
AskRadius(texts) ==
  /\ pc = "radius"
  /\ \E t \in texts :
       /\ answers' = [answers EXCEPT !.radius = t]
       /\ radius' = get_float_input(t, DefaultRadius)
  /\ pc' = "seed"
  /\ UNCHANGED <<line_count, seed, gcode_lines, rng, bounds, lines_to_cut,
                 modified, removed, idx, prev, dists>>

(* main, line 122, for an entry out of texts *)
AskSeed(texts) ==
  /\ pc = "seed"
  /\ \E t \in texts :
       /\ answers' = [answers EXCEPT !.seed = t]
       /\ seed' = get_int_input(t, DefaultSeed)
  /\ pc' = "read"
  /\ UNCHANGED <<line_count, radius, gcode_lines, rng, bounds, lines_to_cut,
                 modified, removed, idx, prev, dists>>

GetLineCount == AskLineCount(CountChoices)

GetRadius == AskRadius(RadiusChoices)

GetSeed == AskSeed(SeedChoices)

(* main, lines 129-130 *)
ReadFile ==
  /\ pc = "read"
  /\ \E f \in FileChoices : gcode_lines' = f
  /\ pc' = "bounds"
  /\ UNCHANGED <<answers, line_count, radius, seed, rng, bounds, lines_to_cut,
                 modified, removed, idx, prev, dists>>

(* inject_angled_holes, line 85, calculate_bounds returning *)
CalculateBounds ==
  /\ pc = "bounds"
  /\ calculate_bounds(gcode_lines) # ValueError
  /\ bounds' = calculate_bounds(gcode_lines)
  /\ pc' = "generate"
  /\ UNCHANGED <<answers, line_count, radius, seed, gcode_lines, rng,
                 lines_to_cut, modified, removed, idx, prev, dists>>

(* inject_angled_holes, line 85, a float() of parse_move raising: nothing *)
(* catches the ValueError and the program ends with a traceback           *)
RaiseValueError ==
  /\ pc = "bounds"
  /\ calculate_bounds(gcode_lines) = ValueError
  /\ pc' = "error"
  /\ UNCHANGED <<answers, line_count, radius, seed, gcode_lines, rng, bounds,
                 lines_to_cut, modified, removed, idx, prev, dists>>

(* generate_random_vectors, lines 65-67, and its return when count <= 0 *)
SeedGenerator ==
  /\ pc = "generate"
  /\ rng' = seeded_state(seed, rng)
  /\ lines_to_cut' = <<>>
  /\ pc' = IF range_continues(0, line_count) THEN "draw" ELSE "loop"
  /\ UNCHANGED <<answers, line_count, radius, seed, gcode_lines, bounds,
                 modified, removed, idx, prev, dists>>

(* generate_random_vectors, one iteration of the loop of lines 68-73: three *)
(* draws, each moving the generator on; after the last iteration the return *)
(* and lines 87-89 of inject_angled_holes                                   *)
DrawVector ==
  /\ pc = "draw"
  /\ lines_to_cut' = Append(lines_to_cut, draw_vector(bounds, rng))
  /\ rng' = random_next(random_next(random_next(rng)))
  /\ pc' = IF range_continues(Len(lines_to_cut) + 1, line_count) THEN "draw" ELSE "loop"
  /\ UNCHANGED <<answers, line_count, radius, seed, gcode_lines, bounds,
                 modified, removed, idx, prev, dists>>

(* the outcomes `known` so far with those of `fresh` for the calls `made` *)
Recorded(known, fresh, made) ==
  [o \in DOMAIN known \cup (DOMAIN fresh \cap made) |-> (fresh @@ known)[o]]

(* inject_angled_holes, one iteration of the loop of lines 91-104.  A call *)
(* of line 96 that was not made before returns a distance within the       *)
(* bounds computed for its operands; one that was made before returns what *)
(* it returned.                                                            *)
ProcessLine ==
  /\ pc = "loop"
  /\ idx <= Len(gcode_lines)
  /\ \E d \in Distances(UnknownOf(gcode_lines[idx], lines_to_cut) \ DOMAIN dists) :
       /\ modified' = append_all(modified,
             loop_body(gcode_lines[idx], lines_to_cut, radius, d @@ dists).out)
       /\ removed' = removed +
             loop_body(gcode_lines[idx], lines_to_cut, radius, d @@ dists).removed
       /\ dists' = Recorded(dists, d,
             CallsOf(gcode_lines[idx], lines_to_cut, radius, d @@ dists))
  /\ idx' = idx + 1
  /\ UNCHANGED <<answers, line_count, radius, seed, gcode_lines, rng, pc,
                 bounds, lines_to_cut, prev>>

(* inject_angled_holes, lines 106-107 *)
AppendSummary ==
  /\ pc = "loop"
  /\ idx > Len(gcode_lines)
  /\ modified' = append_all(modified, <<summary_line(removed)>>)
  /\ pc' = "done"
  /\ UNCHANGED <<answers, line_count, radius, seed, gcode_lines, rng, bounds,
                 lines_to_cut, removed, idx, prev, dists>>

(* The program is run a second time in the same interpreter; the first *)
(* run's arguments and result are kept for comparison.                 *)
RunAgain ==
  /\ pc = "done"
  /\ FirstRun
  /\ prev' = << [answers |-> answers, lines |-> gcode_lines, count |-> line_count,
                 radius |-> radius, seed |-> seed, vectors |-> lines_to_cut,
                 output |-> modified, removed |-> removed] >>
  /\ pc' = "count"
  /\ answers' = NoAnswers
  /\ line_count' = 0
  /\ radius' = Unset
  /\ seed' = 0
  /\ gcode_lines' = <<>>
  /\ bounds' = EmptyBounds
  /\ lines_to_cut' = <<>>
  /\ modified' = <<>>
  /\ removed' = 0
  /\ idx' = 1
  /\ UNCHANGED <<rng, dists>>

Next ==
  \/ GetLineCount
  \/ GetRadius
  \/ GetSeed
  \/ ReadFile
  \/ CalculateBounds
  \/ RaiseValueError
  \/ SeedGenerator
  \/ DrawVector
  \/ ProcessLine
  \/ AppendSummary
  \/ RunAgain

Spec == Init /\ [][Next]_vars

(* The three prompts of main alone, lines 120-122, over more entries *)
PromptLineCount == AskLineCount(PromptTexts)

PromptRadius == AskRadius(PromptTexts)

PromptSeed == AskSeed(PromptTexts)

PromptNext ==
  \/ PromptLineCount
  \/ PromptRadius
  \/ PromptSeed

PromptSpec == Init /\ [][PromptNext]_vars

-----------------------------------------------------------------------------
(* Properties *)

(* the lines the loop of lines 91-104 has gone through *)
Processed == IF pc \in {"loop", "done"} THEN 1..(idx - 1) ELSE {}

SecondRun == prev # <<>>

IsMove(l) == parse_move(l).tag = "move"

IsExtrusionMove(l) == IsMove(l) /\ extrusion_move_re(l)

(* the order of floats; nan is in no relation *)
ExtLE(a, b) ==
  /\ a.k # "nan"
  /\ b.k # "nan"
  /\ (a.k = "-inf" \/ b.k = "inf" \/ (a.k = "fin" /\ b.k = "fin" /\ a.v <= b.v))

ExtLT(a, b) == ExtLE(a, b) /\ ~ExtLE(b, a)

CommentOf(l) == removal_comment(parse_move(l).x, parse_move(l).y)

MarkerCount(seq) == Cardinality({i \in 1..Len(seq) : StartsWith(seq[i], Marker)})

(* how far the bounds of the model and the doubles of the code may lie *)
(* from the distance, in units of 1/800: 0.02                          *)
Margin == 16

(* The perpendicular distance |(p - o) x d| from the point p of the move  *)
(* l to the infinite line through the origin o of the cutting line v with *)
(* its unit direction d, against the radius: "lt" when it is less than    *)
(* radius by more than Margin, "gt" when it is greater by more than       *)
(* Margin, else "near"; "le" for the distance 0 of a line through p and   *)
(* a radius that is not negative.  A line with a nan origin is within no  *)
(* radius, no line is within a radius that is negative or nan, every      *)
(* other line is within an infinite one.                                  *)
PerpCmp(l, v) ==
  LET r == Ext(radius)
      px == Val(parse_move(l).x)
      py == Val(parse_move(l).y)
      cross == ISub(IMul(ISub(Exactly(px), Bounds(v.x)), v.d.dy),
                    IMul(ISub(Exactly(py), Bounds(v.y)), v.d.dx))
      least == IF cross.lo >= 0 THEN cross.lo ELSE IF cross.hi <= 0 THEN 0 - cross.hi ELSE 0
      most == Max2(0 - cross.lo, cross.hi)
  IN IF v.x.k = "nan" \/ v.y.k = "nan" THEN "gt"
     ELSE IF r.k = "inf" THEN "lt"
     ELSE IF r.k # "fin" \/ r.v < 0 THEN "gt"
     ELSE IF Through(px, py, v) THEN "le"
     ELSE IF Ceil(most, Scale) + Margin < r.v THEN "lt"
     ELSE IF Floor(least, Scale) - Margin > r.v THEN "gt"
     ELSE "near"

(* the origin of the cutting line v is farther than radius from the *)
(* point of the move l                                              *)
OriginBeyond(l, v) ==
  /\ Ext(radius).k = "fin"
  /\ sq_cmp(squared_distance(Val(parse_move(l).x), Val(parse_move(l).y),
                             Bounds(v.x), Bounds(v.y)).lo, Ext(radius).v) = "gt"

(* C1: a line that parses as a move and matches the extrusion pattern is    *)
(* replaced by its removal comment if and only if some cutting line lies    *)
(* within radius of its (x, y), measured perpendicularly to the infinite    *)
(* line, and is passed through unchanged otherwise: it is replaced when a   *)
(* cutting line passes through its point or is nearer than radius, and it   *)
(* is passed through when every cutting line is farther than radius.  (A    *)
(* distance within 0.02 of radius is left to the doubles of the code.)      *)
(* With radius < 0 no line is replaced.                                     *)
C1_RemovedIffNear ==
  \A i \in Processed :
     LET l == gcode_lines[i]
         cmp == [j \in 1..Len(lines_to_cut) |-> PerpCmp(l, lines_to_cut[j])]
     IN /\ IsExtrusionMove(l) =>
              /\ modified[i] \in {l, CommentOf(l)}
              /\ (\E j \in DOMAIN cmp : cmp[j] \in {"lt", "le"}) => modified[i] = CommentOf(l)
              /\ (\A j \in DOMAIN cmp : cmp[j] = "gt") => modified[i] = l
        /\ ExtLT(Ext(radius), Fin(0)) => modified[i] = l

(* a move nearer than radius to a cutting line whose origin is farther *)
(* away than radius is replaced; a move farther than radius from every *)
(* cutting line is passed through                                      *)
C1_Witness ==
  /\ pc = "done"
  /\ ExtLT(Fin(0), Ext(radius))
  /\ lines_to_cut # <<>>
  /\ \E i, k \in 1..Len(gcode_lines) :
        /\ IsExtrusionMove(gcode_lines[i])
        /\ IsExtrusionMove(gcode_lines[k])
        /\ \E j \in 1..Len(lines_to_cut) :
              /\ PerpCmp(gcode_lines[i], lines_to_cut[j]) = "lt"
              /\ OriginBeyond(gcode_lines[i], lines_to_cut[j])
        /\ \A j \in 1..Len(lines_to_cut) : PerpCmp(gcode_lines[k], lines_to_cut[j]) = "gt"
        /\ modified[i] = CommentOf(gcode_lines[i])
        /\ modified[k] = gcode_lines[k]

(* every cutting line of the run passes through the point of the move l: *)
(* its distance from each is 0                                           *)
OnEveryLine(l) ==
  /\ lines_to_cut # <<>>
  /\ \A j \in 1..Len(lines_to_cut) :
        Through(Val(parse_move(l).x), Val(parse_move(l).y), lines_to_cut[j])

(* C2: a line that is a move without an E parameter, or that fails move *)
(* parsing, is never replaced, whatever count, radius and seed are.     *)
C2_OnlyExtrusionMovesReplaced ==
  \A i \in Processed :
     (~IsMove(gcode_lines[i]) \/ ~extrusion_move_re(gcode_lines[i]))
        => modified[i] = gcode_lines[i]

(* a move without E that lies on every cutting line, with a radius that is *)
(* not negative, and a line with E that is no move are both passed through *)
C2_Witness ==
  /\ pc = "done"
  /\ ExtLE(Fin(0), Ext(radius))
  /\ \E i \in 1..Len(gcode_lines) :
        /\ IsMove(gcode_lines[i])
        /\ ~extrusion_move_re(gcode_lines[i])
        /\ OnEveryLine(gcode_lines[i])
        /\ modified[i] = gcode_lines[i]
  /\ \E i \in 1..Len(gcode_lines) :
        /\ ~IsMove(gcode_lines[i])
        /\ extrusion_move_re(gcode_lines[i])
        /\ modified[i] = gcode_lines[i]

(* C3: the returned sequence has exactly one line per input line plus the *)
(* summary line, also when several cutting lines are within radius.       *)
C3_LengthInvariant ==
  /\ pc \in {"loop", "done"} => Len(modified) >= idx - 1
  /\ pc = "loop" => Len(modified) = idx - 1
  /\ pc = "done" => Len(modified) = Len(gcode_lines) + 1

(* two cutting lines pass through the point of a move that is replaced *)
C3_Witness ==
  /\ pc = "done"
  /\ Len(modified) = Len(gcode_lines) + 1
  /\ Len(lines_to_cut) >= 2
  /\ ExtLE(Fin(0), Ext(radius))
  /\ \E i \in 1..Len(gcode_lines) :
        /\ IsExtrusionMove(gcode_lines[i])
        /\ OnEveryLine(gcode_lines[i])
        /\ modified[i] = CommentOf(gcode_lines[i])
  /\ \E k \in 1..Len(gcode_lines) : modified[k] = gcode_lines[k]

(* C4 as stated: the number in the summary line equals the number of *)
(* output lines that begin with the removal-comment marker.          *)
C4_SummaryCountsMarkerLines ==
  pc = "done" =>
     modified[Len(modified)] =
        "; Total moves removed by angled Swiss cheese holes: "
           \o IntToStr(MarkerCount(modified)) \o "\n"

(* C4 amended: the number in the summary line equals the number of lines *)
(* this run replaced, which is the number of marker lines of the output  *)
(* less the number of marker lines the input already had.                *)
C4_SummaryCountsReplacedLines ==
  pc = "done" =>
     /\ modified[Len(modified)] =
           "; Total moves removed by angled Swiss cheese holes: "
              \o IntToStr(MarkerCount(modified) - MarkerCount(gcode_lines)) \o "\n"
     /\ MarkerCount(modified) - MarkerCount(gcode_lines) =
           Cardinality({i \in 1..Len(gcode_lines) : modified[i] # gcode_lines[i]})

C4_Witness ==
  /\ pc = "done"
  /\ MarkerCount(gcode_lines) >= 1
  /\ MarkerCount(modified) > MarkerCount(gcode_lines)

(* C5: two runs with the same lines, count, radius and seed return the  *)
(* same output, whatever state the shared generator was in before each: *)
(* the second run makes the draws of the first again, in the same       *)
(* order, and so has the cutting lines of the first.                    *)
C5_Determinism ==
  (/\ SecondRun
   /\ pc \in {"draw", "loop", "done"}
   /\ prev[1].lines = gcode_lines
   /\ prev[1].count = line_count
   /\ prev[1].seed = seed) =>
     /\ Len(lines_to_cut) <= Len(prev[1].vectors)
     /\ lines_to_cut = SubSeq(prev[1].vectors, 1, Len(lines_to_cut))
     /\ (pc = "done" /\ Ext(prev[1].radius) = Ext(radius)) => modified = prev[1].output

(* the second run found the generator where the draws of the first run *)
(* had left it, and the output has a replaced and a kept extrusion move *)
C5_Witness ==
  /\ pc = "done"
  /\ SecondRun
  /\ prev[1].lines = gcode_lines
  /\ prev[1].count = line_count
  /\ Ext(prev[1].radius) = Ext(radius)
  /\ prev[1].seed = seed
  /\ modified = prev[1].output
  /\ Len(lines_to_cut) = 2
  /\ lines_to_cut = prev[1].vectors
  /\ rng # random_seed(seed)
  /\ removed >= 1
  /\ \E k \in 1..Len(gcode_lines) : IsExtrusionMove(gcode_lines[k]) /\ modified[k] = gcode_lines[k]

(* C6: for the same lines, count and seed and radii r1 <= r2, every line *)
(* replaced with r1 is replaced with r2, and the removal count with r1   *)
(* is at most the removal count with r2.                                 *)
C6_RadiusMonotone ==
  (/\ pc = "done"
   /\ SecondRun
   /\ prev[1].lines = gcode_lines
   /\ prev[1].count = line_count
   /\ prev[1].seed = seed) =>
     /\ ExtLE(Ext(prev[1].radius), Ext(radius)) =>
           /\ prev[1].removed <= removed
           /\ \A i \in 1..Len(gcode_lines) :
                 prev[1].output[i] # gcode_lines[i] => modified[i] # gcode_lines[i]
     /\ ExtLE(Ext(radius), Ext(prev[1].radius)) =>
           /\ removed <= prev[1].removed
           /\ \A i \in 1..Len(gcode_lines) :
                 modified[i] # gcode_lines[i] => prev[1].output[i] # gcode_lines[i]

C6_Witness ==
  /\ pc = "done"
  /\ SecondRun
  /\ prev[1].lines = gcode_lines
  /\ prev[1].count = line_count
  /\ prev[1].seed = seed
  /\ ExtLT(Ext(prev[1].radius), Ext(radius))
  /\ 1 <= prev[1].removed
  /\ prev[1].removed < removed

(* C7: with count = 0 no cutting line is generated, no line is replaced *)
(* and the output is the input followed by the summary line for 0.      *)
C7_ZeroCountNoOp ==
  (line_count = 0 /\ pc \in {"draw", "loop", "done"}) =>
     /\ lines_to_cut = <<>>
     /\ pc # "draw"
     /\ removed = 0
     /\ \A i \in Processed : modified[i] = gcode_lines[i]
     /\ pc = "done" =>
           modified = gcode_lines
              \o <<"; Total moves removed by angled Swiss cheese holes: 0\n">>

C7_Witness ==
  /\ pc = "done"
  /\ line_count = 0
  /\ ExtLT(Fin(0), Ext(radius))
  /\ \E i \in 1..Len(gcode_lines) : IsExtrusionMove(gcode_lines[i])
  /\ modified = gcode_lines \o <<"; Total moves removed by angled Swiss cheese holes: 0\n">>

C8_OutputInOrder ==
  /\ \A i \in Processed :
        \/ modified[i] = gcode_lines[i]
        \/ IsMove(gcode_lines[i]) /\ modified[i] = CommentOf(gcode_lines[i])
  /\ pc = "done" =>
        /\ Len(modified) = Len(gcode_lines) + 1
        /\ modified[Len(modified)] = summary_line(removed)

(* C8: output line i is input line i or the removal comment made from     *)
(* input line i's own X and Y; nothing is dropped, duplicated or          *)
(* reordered, the summary line is last, and the input is not modified.    *)
C8_OrderPreserved ==
  /\ []C8_OutputInOrder
  /\ [][(pc \in {"bounds", "generate", "draw", "loop"}) => (gcode_lines' = gcode_lines)]_vars

C8_Witness ==
  /\ pc = "done"
  /\ Len(gcode_lines) >= 2
  /\ gcode_lines[1] # gcode_lines[2]
  /\ IsExtrusionMove(gcode_lines[1])
  /\ IsExtrusionMove(gcode_lines[2])
  /\ modified[1] = CommentOf(gcode_lines[1])
  /\ modified[2] = gcode_lines[2]

(* a line the motion pattern matches whose captured number text is not a number *)
Malformed(l) == XPositions(l) # {} /\ parse_move(l) = ValueError

WellFormedLines(lines) == SelectSeq(lines, LAMBDA l : ~Malformed(l))

(* C9: a line that matches the motion pattern with malformed number text *)
(* is treated as non-matching: no exception is raised, the line adds     *)
(* nothing to the bounds and is passed through unchanged.                *)
C9_MalformedIsNonMatching ==
  /\ pc # "error"
  /\ pc \in {"generate", "draw", "loop", "done"} =>
        bounds = calculate_bounds(WellFormedLines(gcode_lines))
  /\ \A i \in Processed : Malformed(gcode_lines[i]) => modified[i] = gcode_lines[i]

(* C10 as stated: an entry that is not a number or is out of range (a *)
(* negative line count or radius) falls back to the default.          *)
C10_OutOfRangeFallsBack ==
  /\ pc # "count" =>
        line_count = IF IsIntText(answers.count) /\ IntOf(answers.count) >= 0
                     THEN IntOf(answers.count) ELSE 20
  /\ pc \notin {"count", "radius"} =>
        radius = IF IsFloatText(answers.radius) /\ ~ExtLT(Ext(FloatOf(answers.radius)), Fin(0))
                 THEN FloatOf(answers.radius) ELSE DefaultRadius
  /\ pc \notin {"count", "radius", "seed"} =>
        seed = IF IsIntText(answers.seed) THEN IntOf(answers.seed) ELSE 42

(* C10 amended: an empty entry or one that is not a number falls back to *)
(* the default (20, 1.0, 42); every numeric entry, negative ones         *)
(* included, is passed on as entered.                                    *)
C10_NonNumericFallsBack ==
  /\ pc # "count" =>
        /\ line_count = IF IsIntText(answers.count) THEN IntOf(answers.count) ELSE 20
        /\ answers.count \in {"", "2.5", "abc", "1e1", "inf"} => line_count = 20
        /\ answers.count = "-1" => line_count = -1
        /\ answers.count = " 3 " => line_count = 3
  /\ pc \notin {"count", "radius"} =>
        /\ radius = IF IsFloatText(answers.radius) THEN FloatOf(answers.radius)
                    ELSE DefaultRadius
        /\ answers.radius \in {"", "abc"} => Ext(radius) = Fin(800)
        /\ answers.radius = "-1" => Ext(radius) = Fin(-800)
        /\ answers.radius = "1e1" => Ext(radius) = Fin(8000)
        /\ answers.radius = "inf" => Ext(radius) = PosInf
  /\ pc \notin {"count", "radius", "seed"} =>
        /\ seed = IF IsIntText(answers.seed) THEN IntOf(answers.seed) ELSE 42
        /\ answers.seed \in {"", "2.5", "abc", "1e1", "inf"} => seed = 42
        /\ answers.seed = "-1" => seed = -1

C10_Witness ==
  /\ pc = "read"
  /\ answers.count = "2.5"
  /\ line_count = 20
  /\ answers.radius = "-1"
  /\ Ext(radius) = Fin(-800)
  /\ answers.seed = ""
  /\ seed = 42

=============================================================================
